---- MODULE Spec2Model ----
(***************************************************************************)
(* Model of the asynchronous log batching handler (DatadogHandler) of      *)
(* internal/platform/datadog/logger.go: producers calling Handle, the      *)
(* background worker processLogs, flush/flushLocked, the detached          *)
(* sendLogs goroutines and Close.                                          *)
(***************************************************************************)
EXTENDS Integers, Sequences, FiniteSets, TLC

\* ---- bounds of the model ------------------------------------------------
\* Handle calls that can be in progress at once
NumProducers == 2
\* calls of Close
MaxCloseCalls == 2
\* records submitted in all
MaxRecords == 2
\* records submitted in the specification of the liveness property
MaxLiveRecords == 1
\* handlers derived by WithAttrs and WithGroup
MaxViews == 1

\* ---- program constants (scaled where noted) -----------------------------
\* capacity of logChan: make(chan DatadogLogEntry, 100), scaled down
QueueCap == 1
\* BatchSize = 20 in the source, scaled down
BatchSize == 2
\* slog levels
LevelDebug == 0 - 4
LevelInfo == 0
LevelWarn == 4
LevelError == 8

RecordIds == 1..MaxRecords
RecordLevels == {LevelDebug, LevelInfo}
MinLevels == {LevelDebug, LevelInfo}
NoEntry == [id |-> 0, status |-> "none", scope |-> <<>>]

VARIABLES
    minLevel,     \* h.minLevel
    apiKeySet,    \* h.cfg.APIKey != ""
    logChan,      \* h.logChan, buffered channel of entries
    logBuffer,    \* h.logBuffer
    bufferMutex,  \* h.bufferMutex: "free" or the holder
    stopClosed,   \* h.stopChan has been closed
    wg,           \* h.wg counter
    tickPending,  \* a tick is waiting in h.flushTicker.C
    workerPc,     \* position of the processLogs goroutine
    workerEntry,  \* entry received by the worker, not yet appended
    batches,      \* every sendLogs goroutine spawned so far, with its state
    stderr,       \* what sendLogs has written to os.Stderr, in order
    calls,        \* records of the Handle calls that are about to send
    ret,          \* what the Handle call of each record returned
    nextId,       \* identity of the next record
    sink,         \* what the fallback handler has written, in order
    accepted,     \* records that passed the Enabled check in Handle
    dropped,      \* records whose entry found logChan full
    preClose,     \* records enqueued before any call of Close
    closeState,   \* the Close call that closed stopChan: waiting or returned
    closePanics,  \* Close calls that panicked
    enqOrder,     \* identities of the entries sent on logChan, in send order
    callerPc,     \* position of a goroutine other than the worker calling flush
    views,        \* the handlers made by WithAttrs and WithGroup, in order
    viewClose,    \* the Close call made on a handler of views
    fnInput,      \* arguments of a call of levelToStatus or addAttrToMap
    fnOutput,     \* what the call returned or left in the map
    mainPc,       \* position of main
    ddHandler,    \* the handler main's variable ddHandler holds
    secondClosed  \* Close has returned on the handler main made for --debug

vars == <<minLevel, apiKeySet, logChan, logBuffer, bufferMutex, stopClosed,
          wg, tickPending, workerPc, workerEntry, batches, stderr, calls, ret,
          nextId, sink, accepted, dropped, preClose, closeState, closePanics,
          enqOrder, callerPc, views, viewClose, fnInput, fnOutput,
          mainPc, ddHandler, secondClosed>>

handlerVars == <<minLevel, apiKeySet>>
workerVars == <<workerPc, workerEntry>>
producerVars == <<calls, ret, nextId, sink, accepted, dropped, preClose, enqOrder>>
closeVars == <<closeState, closePanics>>
viewVars == <<views, viewClose>>
fnVars == <<fnInput, fnOutput>>
mainVars == <<mainPc, ddHandler, secondClosed>>

\* ---- pure functions -----------------------------------------------------

\* the thresholds compared with > in place of >=
levelToStatusStrict(level) ==
    IF level > LevelError THEN "error"
    ELSE IF level > LevelWarn THEN "warning"
    ELSE IF level > LevelInfo THEN "info"
    ELSE "debug"

\* levelToStatus, lines 330-341
levelToStatus(level) ==
    IF level >= LevelError THEN "error"
    ELSE IF level >= LevelWarn THEN "warning"
    ELSE IF level >= LevelInfo THEN "info"
    ELSE "debug"

\* Enabled with the comparison made strict
EnabledStrict(level) == level > minLevel

Enabled(level) == level >= minLevel

\* the entry Handle builds from a record
NewEntry(rec) ==
    [id |-> rec.id, status |-> levelToStatus(rec.level), scope |-> <<>>]

\* flushLocked: copy the buffer into a batch, reset it, spawn sendLogs; the
\* batch remembers which call of flushLocked made it
\* flushLocked without the reset of the buffer
flushLockedBufferKept(buf) == buf

flushLockedBuffer(buf) == <<>>

\* flushLocked that sends full batches only
flushLockedBatchesFullOnly(buf, bs, trigger) ==
    IF Len(buf) < BatchSize THEN bs
    ELSE Append(bs, [logs |-> buf, st |-> "spawned", by |-> trigger,
                     attempts |-> 0, status |-> 0])

\* flushLocked without the test for an empty buffer
flushLockedBatchesAlways(buf, bs, trigger) ==
    Append(bs, [logs |-> buf, st |-> "spawned", by |-> trigger,
                attempts |-> 0, status |-> 0])

flushLockedBatches(buf, bs, trigger) ==
    IF Len(buf) = 0 THEN bs
    ELSE Append(bs, [logs |-> buf, st |-> "spawned", by |-> trigger,
                     attempts |-> 0, status |-> 0])

\* ---- construction -------------------------------------------------------

\* NewDatadogHandler, lines 74-120: the handler and its worker
InitHandler ==
    /\ minLevel \in MinLevels
    /\ apiKeySet \in BOOLEAN
    /\ logChan = <<>>
    /\ logBuffer = <<>>
    /\ bufferMutex = "free"
    /\ stopClosed = FALSE
    /\ wg = 1
    /\ tickPending = FALSE
    /\ workerPc = "select"
    /\ workerEntry = NoEntry
    /\ batches = <<>>
    /\ stderr = <<>>
    /\ calls = {}
    /\ ret = [id \in RecordIds |-> "none"]
    /\ nextId = 1
    /\ sink = <<>>
    /\ accepted = {}
    /\ dropped = {}
    /\ preClose = {}
    /\ closeState = "none"
    /\ closePanics = 0
    /\ enqOrder = <<>>
    /\ callerPc = "idle"
    /\ views = <<>>
    /\ viewClose = "none"

\* no call of levelToStatus or addAttrToMap on its own
NoCall == [fn |-> "none"]
\* the handler is used without main
InitNoMain ==
    /\ mainPc = "none"
    /\ ddHandler = 1
    /\ secondClosed = FALSE

Init ==
    /\ InitHandler
    /\ fnInput = NoCall
    /\ fnOutput = NoCall
    /\ InitNoMain

\* ---- Handle -------------------------------------------------------------

\* processLogs has taken the case <-h.stopChan of its select (line 237)
StopObserved == workerPc \in {"stop_lock", "stop_cs", "exiting", "done"}

\* Handle without the call of the fallback handler
HandleFallbackOmitted ==
    /\ Cardinality(calls) < NumProducers
    /\ nextId <= MaxRecords
    /\ \E lvl \in RecordLevels :
          calls' = calls \cup {[id |-> nextId, level |-> lvl,
                                  late |-> StopObserved, via |-> 0]}
    /\ nextId' = nextId + 1
    /\ UNCHANGED <<callerPc, handlerVars, fnVars, mainVars, viewVars, logChan, logBuffer, bufferMutex, stopClosed, wg,
                   tickPending, workerVars, batches, stderr, ret, sink, accepted, dropped,
                   preClose, enqOrder, closeVars>>

\* Handle, lines 128-132: a new call of Handle; the record goes to the
\* fallback handler first, and an error of the fallback handler is returned
\* to the caller.
HandleFallback ==
    /\ Cardinality(calls) < NumProducers
    /\ nextId <= MaxRecords
    /\ \E lvl \in RecordLevels, ok \in BOOLEAN :
          LET rec == [id |-> nextId, level |-> lvl, late |-> StopObserved,
                      via |-> 0] IN
          IF ok
          THEN /\ sink' = Append(sink, [kind |-> "record", id |-> rec.id,
                                        level |-> rec.level, scope |-> <<>>])
               /\ calls' = calls \cup {rec}
               /\ ret' = ret
          ELSE /\ sink' = sink
               /\ calls' = calls
               /\ ret' = [ret EXCEPT ![rec.id] = "fallback_error"]
    /\ nextId' = nextId + 1
    /\ UNCHANGED <<callerPc, handlerVars, fnVars, mainVars, viewVars, logChan, logBuffer, bufferMutex, stopClosed, wg,
                   tickPending, workerVars, batches, stderr, accepted, dropped, preClose,
                   enqOrder, closeVars>>

\* the room test off by one
HasRoomOffByOne(q) == Len(q) <= QueueCap

\* the channel has room for one more entry
HasRoom(q) == Len(q) < QueueCap

\* Handle with a plain send in place of the select with a default case
HandleEnqueueBlocking(rec) ==
    /\ rec \in calls
    /\ calls' = calls \ {rec}
    /\ ret' = [ret EXCEPT ![rec.id] = "nil"]
    /\ IF ~Enabled(rec.level)
       THEN UNCHANGED <<logChan, accepted, dropped, preClose, enqOrder>>
       ELSE /\ HasRoom(logChan)
            /\ accepted' = accepted \cup {rec.id}
            /\ logChan' = Append(logChan, NewEntry(rec))
            /\ enqOrder' = Append(enqOrder, rec.id)
            /\ dropped' = dropped
            /\ preClose' = IF stopClosed THEN preClose
                           ELSE preClose \cup {rec.id}
    /\ UNCHANGED <<callerPc, handlerVars, fnVars, mainVars, viewVars, logBuffer, bufferMutex, stopClosed, wg, tickPending,
                   workerVars, batches, stderr, nextId, sink, closeVars>>

\* Handle without the level check
HandleEnqueueUnfiltered(rec) ==
    /\ rec \in calls
    /\ calls' = calls \ {rec}
    /\ accepted' = accepted \cup {rec.id}
    /\ IF HasRoom(logChan)
       THEN /\ logChan' = Append(logChan, NewEntry(rec))
            /\ enqOrder' = Append(enqOrder, rec.id)
            /\ ret' = [ret EXCEPT ![rec.id] = "nil"]
            /\ dropped' = dropped
            /\ preClose' = IF stopClosed THEN preClose
                           ELSE preClose \cup {rec.id}
       ELSE /\ logChan' = logChan
            /\ enqOrder' = enqOrder
            /\ ret' = [ret EXCEPT ![rec.id] = "channel_full_error"]
            /\ dropped' = dropped \cup {rec.id}
            /\ preClose' = preClose
    /\ UNCHANGED <<callerPc, handlerVars, fnVars, mainVars, viewVars, logBuffer, bufferMutex, stopClosed, wg, tickPending,
                   workerVars, batches, stderr, nextId, sink, closeVars>>

\* Handle, lines 134-176: level check, entry construction, non-blocking send
HandleEnqueue(rec) ==
    /\ rec \in calls
    /\ calls' = calls \ {rec}
    /\ IF ~Enabled(rec.level)
       THEN /\ ret' = [ret EXCEPT ![rec.id] = "nil"]
            /\ UNCHANGED <<logChan, accepted, dropped, preClose, enqOrder>>
       ELSE /\ accepted' = accepted \cup {rec.id}
            /\ IF HasRoom(logChan)
               THEN /\ logChan' = Append(logChan, NewEntry(rec))
                    /\ enqOrder' = Append(enqOrder, rec.id)
                    /\ ret' = [ret EXCEPT ![rec.id] = "nil"]
                    /\ dropped' = dropped
                    /\ preClose' = IF stopClosed THEN preClose
                                   ELSE preClose \cup {rec.id}
               ELSE /\ logChan' = logChan
                    /\ enqOrder' = enqOrder
                    /\ ret' = [ret EXCEPT ![rec.id] = "channel_full_error"]
                    /\ dropped' = dropped \cup {rec.id}
                    /\ preClose' = preClose
    /\ UNCHANGED <<callerPc, handlerVars, fnVars, mainVars, viewVars, logBuffer, bufferMutex, stopClosed, wg, tickPending,
                   workerVars, batches, stderr, nextId, sink, closeVars>>

\* ---- processLogs --------------------------------------------------------

\* the ticker delivers a tick (its channel holds one)
Tick ==
    /\ ~tickPending
    /\ tickPending' = TRUE
    /\ UNCHANGED <<callerPc, handlerVars, fnVars, mainVars, viewVars, logChan, logBuffer, bufferMutex, stopClosed, wg,
                   workerVars, batches, stderr, producerVars, closeVars>>

\* select case <-h.stopChan (line 237)
WorkerStop ==
    /\ workerPc = "select"
    /\ stopClosed
    /\ workerPc' = "stop_lock"
    /\ UNCHANGED <<callerPc, handlerVars, fnVars, mainVars, viewVars, logChan, logBuffer, bufferMutex, stopClosed, wg,
                   tickPending, workerEntry, batches, stderr, producerVars, closeVars>>

\* select case entry := <-h.logChan (line 242)
WorkerRecv ==
    /\ workerPc = "select"
    /\ Len(logChan) > 0
    /\ workerEntry' = Head(logChan)
    /\ logChan' = Tail(logChan)
    /\ workerPc' = "recv_lock"
    /\ UNCHANGED <<callerPc, handlerVars, fnVars, mainVars, viewVars, logBuffer, bufferMutex, stopClosed, wg, tickPending,
                   batches, stderr, producerVars, closeVars>>

\* select case <-h.flushTicker.C (line 253)
WorkerTick ==
    /\ workerPc = "select"
    /\ tickPending
    /\ tickPending' = FALSE
    /\ workerPc' = "tick_lock"
    /\ UNCHANGED <<callerPc, handlerVars, fnVars, mainVars, viewVars, logChan, logBuffer, bufferMutex, stopClosed, wg,
                   workerEntry, batches, stderr, producerVars, closeVars>>

\* Lock() that does not wait for the holder of the mutex
WorkerLockUnguarded ==
    /\ workerPc \in {"recv_lock", "tick_lock", "stop_lock"}
    /\ bufferMutex' = "worker"
    /\ workerPc' = CASE workerPc = "recv_lock" -> "recv_cs"
                     [] workerPc = "tick_lock" -> "tick_cs"
                     [] workerPc = "stop_lock" -> "stop_cs"
    /\ UNCHANGED <<callerPc, handlerVars, fnVars, mainVars, viewVars, logChan, logBuffer, stopClosed, wg, tickPending,
                   workerEntry, batches, stderr, producerVars, closeVars>>

\* h.bufferMutex.Lock() of the worker (lines 244 and 262)
WorkerLock ==
    /\ workerPc \in {"recv_lock", "tick_lock", "stop_lock"}
    /\ bufferMutex = "free"
    /\ bufferMutex' = "worker"
    /\ workerPc' = CASE workerPc = "recv_lock" -> "recv_cs"
                     [] workerPc = "tick_lock" -> "tick_cs"
                     [] workerPc = "stop_lock" -> "stop_cs"
    /\ UNCHANGED <<callerPc, handlerVars, fnVars, mainVars, viewVars, logChan, logBuffer, stopClosed, wg, tickPending,
                   workerEntry, batches, stderr, producerVars, closeVars>>

\* the threshold test with a strict comparison
BufferFullLate(buf) == Len(buf) > BatchSize

\* line 248: the buffer has reached the batch size
BufferFull(buf) == Len(buf) >= BatchSize

\* the buffer overwritten with the entry
appendEntryAlone(buf, entry) == <<entry>>

\* the entry put in front of the buffer
appendEntryFront(buf, entry) == <<entry>> \o buf

\* line 245: h.logBuffer = append(h.logBuffer, entry)
appendEntry(buf, entry) == Append(buf, entry)

\* lines 245-251: append, flush when the buffer is full, unlock
WorkerAppend ==
    /\ workerPc = "recv_cs"
    /\ LET buf == appendEntry(logBuffer, workerEntry) IN
       IF BufferFull(buf)
       THEN /\ logBuffer' = flushLockedBuffer(buf)
            /\ batches' = flushLockedBatches(buf, batches, "size")
       ELSE /\ logBuffer' = buf
            /\ batches' = batches
    /\ workerEntry' = NoEntry
    /\ bufferMutex' = "free"
    /\ workerPc' = "select"
    /\ UNCHANGED <<callerPc, stderr, handlerVars, fnVars, mainVars, viewVars, logChan, stopClosed, wg, tickPending,
                   producerVars, closeVars>>

\* flush that waits until the deliveries have finished
WorkerFlushSynchronous ==
    /\ workerPc \in {"tick_cs", "stop_cs"}
    /\ \A i \in 1..Len(batches) : batches[i].st \notin {"spawned", "calling"}
    /\ logBuffer' = flushLockedBuffer(logBuffer)
    /\ batches' = flushLockedBatches(logBuffer, batches,
                                     IF workerPc = "tick_cs" THEN "timer" ELSE "stop")
    /\ bufferMutex' = "free"
    /\ workerPc' = IF workerPc = "tick_cs" THEN "select" ELSE "exiting"
    /\ UNCHANGED <<callerPc, stderr, handlerVars, fnVars, mainVars, viewVars, logChan, stopClosed, wg, tickPending,
                   workerEntry, producerVars, closeVars>>

\* flush() of the timer case and of the stop case: flushLocked, unlock
WorkerFlush ==
    /\ workerPc \in {"tick_cs", "stop_cs"}
    /\ logBuffer' = flushLockedBuffer(logBuffer)
    /\ batches' = flushLockedBatches(logBuffer, batches,
                                     IF workerPc = "tick_cs" THEN "timer" ELSE "stop")
    /\ bufferMutex' = "free"
    /\ workerPc' = IF workerPc = "tick_cs" THEN "select" ELSE "exiting"
    /\ UNCHANGED <<callerPc, stderr, handlerVars, fnVars, mainVars, viewVars, logChan, stopClosed, wg, tickPending,
                   workerEntry, producerVars, closeVars>>

\* return of processLogs: the deferred h.wg.Done() (line 233)
WorkerDone ==
    /\ workerPc = "exiting"
    /\ wg' = wg - 1
    /\ workerPc' = "done"
    /\ UNCHANGED <<callerPc, handlerVars, fnVars, mainVars, viewVars, logChan, logBuffer, bufferMutex, stopClosed,
                   tickPending, workerEntry, batches, stderr, producerVars, closeVars>>

\* ---- flush called by another goroutine ----------------------------------

\* flush(), line 262, called on the handler from outside the worker (as
\* the handler's test does): h.bufferMutex.Lock()
ExternalLock ==
    /\ callerPc = "idle"
    /\ bufferMutex = "free"
    /\ bufferMutex' = "caller"
    /\ callerPc' = "flush_cs"
    /\ UNCHANGED <<handlerVars, fnVars, mainVars, viewVars, logChan, logBuffer, stopClosed, wg, tickPending,
                   workerVars, batches, stderr, producerVars, closeVars>>

\* flush(), lines 263-266: flushLocked and the deferred Unlock
ExternalFlush ==
    /\ callerPc = "flush_cs"
    /\ logBuffer' = flushLockedBuffer(logBuffer)
    /\ batches' = flushLockedBatches(logBuffer, batches, "call")
    /\ bufferMutex' = "free"
    /\ callerPc' = "idle"
    /\ UNCHANGED <<stderr, handlerVars, fnVars, mainVars, viewVars, logChan, stopClosed, wg, tickPending,
                   workerVars, producerVars, closeVars>>

\* ---- sendLogs -----------------------------------------------------------

\* results of the steps of sendLogs that can fail before the network call
BuildResults == {"marshal_error", "request_error", "calling"}
\* status codes the intake can answer with
StatusCodes == {101, 202, 500}

\* a failure report of sendLogs (lines 300, 307, 318, 325)
Report(i, what) == [batch |-> i, text |-> what]

\* sendLogs, lines 284-316: return when there is no API key; else marshal
\* the batch, build the request and start the network call; a failure of
\* json.Marshal or http.NewRequest is printed on os.Stderr
SendStart(i) ==
    /\ i \in 1..Len(batches)
    /\ batches[i].st = "spawned"
    /\ IF ~apiKeySet
       THEN /\ batches' = [batches EXCEPT ![i].st = "skipped"]
            /\ stderr' = stderr
       ELSE \E res \in BuildResults :
              IF res = "calling"
              THEN /\ batches' = [batches EXCEPT ![i].st = "calling",
                                                 ![i].attempts = @ + 1]
                   /\ stderr' = stderr
              ELSE /\ batches' = [batches EXCEPT ![i].st = res]
                   /\ stderr' = Append(stderr, Report(i, res))
    /\ UNCHANGED <<callerPc, handlerVars, fnVars, mainVars, viewVars, logChan, logBuffer, bufferMutex, stopClosed, wg,
                   tickPending, workerVars, producerVars, closeVars>>

\* sendLogs that starts over after a failed network call
SendEndRetry(i) ==
    /\ i \in 1..Len(batches)
    /\ batches[i].st = "calling"
    /\ \/ /\ batches' = [batches EXCEPT ![i].st = "spawned"]
          /\ stderr' = Append(stderr, Report(i, "transport_error"))
       \/ \E code \in StatusCodes :
             /\ batches' = [batches EXCEPT ![i].st = "responded",
                                           ![i].status = code]
             /\ stderr' = IF code >= 300
                          THEN Append(stderr, Report(i, "status"))
                          ELSE stderr
    /\ UNCHANGED <<callerPc, handlerVars, fnVars, mainVars, viewVars, logChan, logBuffer, bufferMutex, stopClosed, wg,
                   tickPending, workerVars, producerVars, closeVars>>

\* sendLogs, lines 316-327: h.client.Do returns an error, or a response
\* whose status is printed on os.Stderr when it is 300 or more
SendEnd(i) ==
    /\ i \in 1..Len(batches)
    /\ batches[i].st = "calling"
    /\ \/ /\ batches' = [batches EXCEPT ![i].st = "transport_error"]
          /\ stderr' = Append(stderr, Report(i, "transport_error"))
       \/ \E code \in StatusCodes :
             /\ batches' = [batches EXCEPT ![i].st = "responded",
                                           ![i].status = code]
             /\ stderr' = IF code >= 300
                          THEN Append(stderr, Report(i, "status"))
                          ELSE stderr
    /\ UNCHANGED <<callerPc, handlerVars, fnVars, mainVars, viewVars, logChan, logBuffer, bufferMutex, stopClosed, wg,
                   tickPending, workerVars, producerVars, closeVars>>

\* ---- Close --------------------------------------------------------------

\* Close, line 223: close(h.stopChan); closing a closed channel panics
CloseSignal ==
    /\ closePanics + (IF closeState = "none" THEN 0 ELSE 1) < MaxCloseCalls
    /\ IF stopClosed
       THEN /\ closePanics' = closePanics + 1
            /\ UNCHANGED <<callerPc, closeState, stopClosed>>
       ELSE /\ closeState' = "wait"
            /\ stopClosed' = TRUE
            /\ closePanics' = closePanics
    /\ UNCHANGED <<callerPc, handlerVars, fnVars, mainVars, viewVars, logChan, logBuffer, bufferMutex, wg, tickPending,
                   workerVars, batches, stderr, producerVars>>

\* Close without the wait for the worker
CloseWaitSkipped ==
    /\ closeState = "wait"
    /\ closeState' = "returned"
    /\ UNCHANGED <<callerPc, handlerVars, fnVars, mainVars, viewVars, logChan, logBuffer, bufferMutex, stopClosed, wg,
                   tickPending, workerVars, batches, stderr, producerVars, closePanics>>

\* Close, lines 226-228: h.wg.Wait() and return nil
CloseWait ==
    /\ closeState = "wait"
    /\ wg = 0
    /\ closeState' = "returned"
    /\ UNCHANGED <<callerPc, handlerVars, fnVars, mainVars, viewVars, logChan, logBuffer, bufferMutex, stopClosed, wg,
                   tickPending, workerVars, batches, stderr, producerVars, closePanics>>

\* ---- WithAttrs, WithGroup -----------------------------------------------

\* the handler's own engine is number 0: the channels, the ticker and the
\* worker made by NewDatadogHandler
RootEngine == 0

RECURSIVE ViewScope(_)
\* the attributes and groups a handler was derived with, outermost first;
\* handler 0 is the one made by NewDatadogHandler
ViewScope(v) ==
    IF v = 0 THEN <<>>
    ELSE Append(ViewScope(views[v].parent), [kind |-> views[v].kind, view |-> v])

\* the fields WithAttrs and WithGroup give the new handler: logChan,
\* stopChan and flushTicker are the parent's (a channel and a pointer are
\* references), wg is left at its zero value, no goroutine is started
DerivedHandler(parent, kind) ==
    [kind |-> kind, parent |-> parent,
     logChan |-> IF parent = 0 THEN RootEngine ELSE views[parent].logChan,
     stopChan |-> IF parent = 0 THEN RootEngine ELSE views[parent].stopChan,
     flushTicker |-> IF parent = 0 THEN RootEngine ELSE views[parent].flushTicker,
     wg |-> 0, worker |-> FALSE]

\* WithAttrs that builds the new handler the way NewDatadogHandler does
WithAttrsNewEngine(parent) ==
    /\ Len(views) < MaxViews
    /\ parent \in 0..Len(views)
    /\ views' = Append(views, [kind |-> "attrs", parent |-> parent,
                               logChan |-> Len(views) + 1,
                               stopChan |-> Len(views) + 1,
                               flushTicker |-> Len(views) + 1,
                               wg |-> 1, worker |-> TRUE])
    /\ UNCHANGED <<callerPc, handlerVars, fnVars, mainVars, viewClose, logChan, logBuffer, bufferMutex,
                   stopClosed, wg, tickPending, workerVars, batches, stderr,
                   producerVars, closeVars>>

\* WithAttrs, lines 179-197
WithAttrs(parent) ==
    /\ Len(views) < MaxViews
    /\ parent \in 0..Len(views)
    /\ views' = Append(views, DerivedHandler(parent, "attrs"))
    /\ UNCHANGED <<callerPc, handlerVars, fnVars, mainVars, viewClose, logChan, logBuffer, bufferMutex,
                   stopClosed, wg, tickPending, workerVars, batches, stderr,
                   producerVars, closeVars>>

\* WithGroup, lines 200-218
WithGroup(parent) ==
    /\ Len(views) < MaxViews
    /\ parent \in 0..Len(views)
    /\ views' = Append(views, DerivedHandler(parent, "group"))
    /\ UNCHANGED <<callerPc, handlerVars, fnVars, mainVars, viewClose, logChan, logBuffer, bufferMutex,
                   stopClosed, wg, tickPending, workerVars, batches, stderr,
                   producerVars, closeVars>>

\* Handle, lines 128-132, called on a derived handler: its fallback is
\* h.fallback.WithAttrs(attrs) or h.fallback.WithGroup(name), so what the
\* fallback writes carries the scope of the handler
HandleFallbackDerived ==
    /\ Cardinality(calls) < NumProducers
    /\ nextId <= MaxRecords
    /\ \E v \in 1..Len(views), lvl \in RecordLevels, ok \in BOOLEAN :
          LET rec == [id |-> nextId, level |-> lvl, late |-> StopObserved,
                      via |-> v] IN
          IF ok
          THEN /\ sink' = Append(sink, [kind |-> "record", id |-> rec.id,
                                        level |-> rec.level,
                                        scope |-> ViewScope(v)])
               /\ calls' = calls \cup {rec}
               /\ ret' = ret
          ELSE /\ sink' = sink
               /\ calls' = calls
               /\ ret' = [ret EXCEPT ![rec.id] = "fallback_error"]
    /\ nextId' = nextId + 1
    /\ UNCHANGED <<callerPc, handlerVars, fnVars, mainVars, viewVars, logChan, logBuffer, bufferMutex,
                   stopClosed, wg, tickPending, workerVars, batches, stderr, accepted,
                   dropped, preClose, enqOrder, closeVars>>

\* Close, line 223, called on a derived handler: close(h.stopChan) on the
\* channel it shares with the handler it was derived from
ViewCloseSignal ==
    /\ viewClose = "none"
    /\ \E v \in 1..Len(views) : views[v].stopChan = RootEngine
    /\ IF stopClosed
       THEN /\ viewClose' = "panicked"
            /\ stopClosed' = stopClosed
       ELSE /\ viewClose' = "wait"
            /\ stopClosed' = TRUE
    /\ UNCHANGED <<callerPc, handlerVars, fnVars, mainVars, views, logChan, logBuffer, bufferMutex, wg,
                   tickPending, workerVars, batches, stderr, producerVars, closeVars>>

\* Close, lines 226-228, called on a derived handler: h.wg.Wait() on the
\* handler's own WaitGroup, whose counter is zero
ViewCloseWait ==
    /\ viewClose = "wait"
    /\ \E v \in 1..Len(views) : views[v].wg = 0
    /\ viewClose' = "returned"
    /\ UNCHANGED <<callerPc, handlerVars, fnVars, mainVars, views, logChan, logBuffer, bufferMutex,
                   stopClosed, wg, tickPending, workerVars, batches, stderr,
                   producerVars, closeVars>>

\* ---- main ---------------------------------------------------------------

\* everything main does not touch itself
engineState ==
    <<callerPc, minLevel, apiKeySet, viewVars, fnVars, logChan, logBuffer,
      bufferMutex, stopClosed, wg, tickPending, workerVars, batches, stderr,
      producerVars, closeVars>>

\* the process has ended
Exited == mainPc \in {"exited", "exited_error"}

\* main, lines 239-269: the API key is set, the handler is made and made
\* the default logger, and the closure that closes ddHandler is deferred
InitMain ==
    /\ InitHandler
    /\ apiKeySet
    /\ fnInput = NoCall
    /\ fnOutput = NoCall
    /\ mainPc = "before"
    /\ ddHandler = 1
    /\ secondClosed = FALSE

\* the Before hook, lines 329-356: with --debug and a level that is not
\* debug, ddHandler is assigned a new handler; the old one is left as it is
MainBefore ==
    /\ mainPc = "before"
    /\ \E debug \in BOOLEAN :
          ddHandler' = IF debug /\ minLevel # LevelDebug THEN 2 ELSE ddHandler
    /\ mainPc' = "run"
    /\ UNCHANGED <<secondClosed, engineState>>

\* lines 421-426: app.RunContext returns; with an error main calls
\* os.Exit(1), which runs no deferred function; else main returns and the
\* deferred functions run
MainRun ==
    /\ mainPc = "run"
    /\ \E err \in BOOLEAN :
          mainPc' = IF err THEN "exited_error" ELSE "deferred"
    /\ UNCHANGED <<ddHandler, secondClosed, engineState>>

\* the deferred closure, lines 259-263, when ddHandler holds the handler
\* made for --debug: its Close
MainCloseSecond ==
    /\ mainPc = "deferred"
    /\ ddHandler = 2
    /\ ~secondClosed
    /\ secondClosed' = TRUE
    /\ UNCHANGED <<mainPc, ddHandler, engineState>>

\* the deferred closure has returned and the process ends
MainReturn ==
    /\ mainPc = "deferred"
    /\ \/ ddHandler = 1 /\ closeState = "returned"
       \/ ddHandler = 2 /\ secondClosed
    /\ mainPc' = "exited"
    /\ UNCHANGED <<ddHandler, secondClosed, engineState>>

\* ---- specification ------------------------------------------------------

\* the step of sendLogs for batch i meets no failure: the batch is
\* marshalled, the request is built and the intake answers 202
DeliveryGoesWell(i) ==
    /\ batches'[i].st \in {"skipped", "calling", "responded"}
    /\ batches'[i].status \in {0, 202}

\* The handler as the program uses it, with deliveries that meet no
\* failure; NextSend below has the failures and NextFlush the calls of flush
\* from outside the worker.

Next ==
    \/ HandleFallback
    \/ \E rec \in calls : HandleEnqueue(rec)
    \/ Tick
    \/ WorkerStop
    \/ WorkerRecv
    \/ WorkerTick
    \/ WorkerLock
    \/ WorkerAppend
    \/ WorkerFlush
    \/ WorkerDone
    \/ \E i \in 1..Len(batches) : SendStart(i) /\ DeliveryGoesWell(i)
    \/ \E i \in 1..Len(batches) : SendEnd(i) /\ DeliveryGoesWell(i)
    \/ CloseSignal
    \/ CloseWait

Spec == Init /\ [][Next]_vars

\* the Go scheduler runs every runnable goroutine, select chooses among
\* its ready cases at random, so a case that is ready again and again is
\* eventually chosen, and sync.Mutex does not starve a waiter; producers,
\* the ticker and the network are not obliged to do anything
Fairness ==
    /\ SF_vars(WorkerStop)
    /\ SF_vars(WorkerLock)
    /\ WF_vars(WorkerAppend)
    /\ WF_vars(WorkerFlush)
    /\ WF_vars(WorkerDone)
    /\ WF_vars(CloseWait)

\* the program with at most MaxLiveRecords records submitted
NextLive ==
    \/ nextId <= MaxLiveRecords /\ HandleFallback
    \/ \E rec \in calls : HandleEnqueue(rec)
    \/ Tick
    \/ WorkerStop
    \/ WorkerRecv
    \/ WorkerTick
    \/ WorkerLock
    \/ WorkerAppend
    \/ WorkerFlush
    \/ WorkerDone
    \/ \E i \in 1..Len(batches) : SendStart(i) /\ DeliveryGoesWell(i)
    \/ \E i \in 1..Len(batches) : SendEnd(i) /\ DeliveryGoesWell(i)
    \/ CloseSignal
    \/ CloseWait

FairSpec == Init /\ [][NextLive]_vars /\ Fairness

\* the handler while it runs: no Close
NextRun ==
    \/ HandleFallback
    \/ \E rec \in calls : HandleEnqueue(rec)
    \/ Tick
    \/ WorkerRecv
    \/ WorkerTick
    \/ WorkerLock
    \/ WorkerAppend
    \/ WorkerFlush
    \/ \E i \in 1..Len(batches) : SendStart(i) /\ DeliveryGoesWell(i)
    \/ \E i \in 1..Len(batches) : SendEnd(i) /\ DeliveryGoesWell(i)

\* the ticker of NewDatadogHandler (line 113) ticks every FlushInterval;
\* the select of processLogs takes one of its ready cases at random, so
\* the receive and the tick case are each taken if ready again and again;
\* a goroutine that can run does run
RunFairness ==
    /\ WF_vars(Tick)
    /\ SF_vars(WorkerRecv)
    /\ SF_vars(WorkerTick)
    /\ SF_vars(WorkerLock)
    /\ WF_vars(WorkerAppend)
    /\ WF_vars(WorkerFlush)

RunSpec == Init /\ [][NextRun]_vars /\ RunFairness

\* main and the handler it made first: records are logged through that
\* handler while it is the default logger, its Close is called by main's
\* deferred closure only, and nothing runs once the process has ended
NextMain ==
    \/ MainBefore
    \/ MainRun
    \/ MainCloseSecond
    \/ MainReturn
    \/ /\ mainPc \in {"before", "run"} /\ ddHandler = 1
       /\ nextId <= MaxLiveRecords /\ HandleFallback
    \/ ~Exited /\ \E rec \in calls : HandleEnqueue(rec)
    \/ ~Exited /\ Tick
    \/ ~Exited /\ WorkerStop
    \/ ~Exited /\ WorkerRecv
    \/ ~Exited /\ WorkerTick
    \/ ~Exited /\ WorkerLock
    \/ ~Exited /\ WorkerAppend
    \/ ~Exited /\ WorkerFlush
    \/ ~Exited /\ WorkerDone
    \/ ~Exited /\ \E i \in 1..Len(batches) : SendStart(i) /\ DeliveryGoesWell(i)
    \/ ~Exited /\ \E i \in 1..Len(batches) : SendEnd(i) /\ DeliveryGoesWell(i)
    \/ mainPc = "deferred" /\ ddHandler = 1 /\ closeState = "none" /\ CloseSignal
    \/ mainPc = "deferred" /\ CloseWait

MainSpec == InitMain /\ [][NextMain]_vars

\* the handler with deliveries that can fail in every way sendLogs
\* distinguishes, with at most MaxLiveRecords records submitted
NextSend ==
    \/ nextId <= MaxLiveRecords /\ HandleFallback
    \/ \E rec \in calls : HandleEnqueue(rec)
    \/ Tick
    \/ WorkerStop
    \/ WorkerRecv
    \/ WorkerTick
    \/ WorkerLock
    \/ WorkerAppend
    \/ WorkerFlush
    \/ WorkerDone
    \/ \E i \in 1..Len(batches) : SendStart(i)
    \/ \E i \in 1..Len(batches) : SendEnd(i)
    \/ CloseSignal
    \/ CloseWait

SendSpec == Init /\ [][NextSend]_vars

\* NewDatadogHandler with an empty API key
InitFlush == Init /\ ~apiKeySet

\* the handler with handlers derived from it: at most MaxLiveRecords
\* records, all submitted through derived handlers, and Close called on
\* the first handler only after Close was called on a derived one
NextDerive ==
    \/ nextId <= MaxLiveRecords /\ HandleFallbackDerived
    \/ \E rec \in calls : HandleEnqueue(rec)
    \/ \E parent \in 0..Len(views) : WithAttrs(parent)
    \/ \E parent \in 0..Len(views) : WithGroup(parent)
    \/ Tick
    \/ WorkerStop
    \/ WorkerRecv
    \/ WorkerTick
    \/ WorkerLock
    \/ WorkerAppend
    \/ WorkerFlush
    \/ WorkerDone
    \/ \E i \in 1..Len(batches) : SendStart(i)
    \/ viewClose # "none" /\ CloseSignal
    \/ ViewCloseSignal
    \/ ViewCloseWait

DeriveSpec == InitFlush /\ [][NextDerive]_vars

\* the handler with flush also called from outside the worker
NextFlush ==
    \/ HandleFallback
    \/ \E rec \in calls : HandleEnqueue(rec)
    \/ Tick
    \/ WorkerStop
    \/ WorkerRecv
    \/ WorkerTick
    \/ WorkerLock
    \/ WorkerAppend
    \/ WorkerFlush
    \/ WorkerDone
    \/ ExternalLock
    \/ ExternalFlush
    \/ \E i \in 1..Len(batches) : SendStart(i)
    \/ CloseSignal
    \/ CloseWait

FlushSpec == InitFlush /\ [][NextFlush]_vars

\* ---- auxiliary definitions of the properties ----------------------------

SeqIds(q) == {q[i].id : i \in 1..Len(q)}
QueueIds == SeqIds(logChan)
BufferIds == SeqIds(logBuffer)
WorkerIds == IF workerEntry = NoEntry THEN {} ELSE {workerEntry.id}
BatchedIds == UNION {SeqIds(batches[i].logs) : i \in 1..Len(batches)}
SinkRecordIds == {sink[i].id : i \in {j \in 1..Len(sink) : sink[j].kind = "record"}}
DropWarnings(id) ==
    {i \in 1..Len(sink) : sink[i].kind = "drop_warning" /\ sink[i].id = id}
EnqueuedIds == accepted \ dropped
SomeCloseReturned == closeState = "returned"
WorkerStalled == workerEntry = NoEntry /\ logBuffer = <<>> /\ batches = <<>>
AllLevels == (LevelDebug - 4)..(LevelError + 4)

TypeOK ==
    /\ minLevel \in MinLevels
    /\ apiKeySet \in BOOLEAN
    /\ bufferMutex \in {"free", "worker", "caller"}
    /\ wg \in {0, 1}
    /\ workerPc \in {"select", "recv_lock", "recv_cs", "tick_lock", "tick_cs",
                     "stop_lock", "stop_cs", "exiting", "done"}
    /\ Cardinality(calls) <= NumProducers
    /\ \A id \in RecordIds :
          ret[id] \in {"none", "nil", "fallback_error", "channel_full_error"}
    /\ closeState \in {"none", "wait", "returned"}
    /\ closePanics \in 0..MaxCloseCalls
    /\ nextId \in 1..(MaxRecords + 1)
    /\ callerPc \in {"idle", "flush_cs"}
    /\ Len(enqOrder) <= MaxRecords
    /\ Len(views) <= MaxViews
    /\ viewClose \in {"none", "wait", "returned", "panicked"}

\* ---- levelToStatus and addAttrToMap called on their own -----------------

\* nodes (groups and values) of an attribute passed to addAttrToMap
MaxNodes == 4

\* a key is a sequence of characters; <<>> is the empty string
Keys == {<<>>, <<"a">>}
Prefixes == {<<>>, <<"p">>}
Values == {1, 2}

\* slog.Attr of a kind other than KindGroup, and of KindGroup
ValueAttr(k, v) == [key |-> k, kind |-> "value", val |-> v]
GroupAttr(k, as) == [key |-> k, kind |-> "group", group |-> as]

RECURSIVE AttrsOfSize(_), AttrListsOfSize(_)
\* the attributes of n nodes, and the lists of attributes of m nodes in all
AttrsOfSize(n) ==
    IF n = 1
    THEN {ValueAttr(k, v) : k \in Keys, v \in Values}
            \cup {GroupAttr(k, <<>>) : k \in Keys}
    ELSE {GroupAttr(k, as) : k \in Keys, as \in AttrListsOfSize(n - 1)}
AttrListsOfSize(m) ==
    IF m = 0 THEN {<<>>}
    ELSE UNION {{<<a>> \o rest : a \in AttrsOfSize(j),
                                  rest \in AttrListsOfSize(m - j)} : j \in 1..m}

Attrs == UNION {AttrsOfSize(n) : n \in 1..MaxNodes}

\* the key without the prefix
attrKeyUnprefixed(prefix, key) == key

\* lines 345-348: key := attr.Key; if prefix != "" { key = prefix + "." + key }
attrKey(prefix, key) ==
    IF prefix # <<>> THEN prefix \o <<".">> \o key ELSE key

\* m[key] = value
MapSet(m, key, val) ==
    [k \in DOMAIN m \cup {key} |-> IF k = key THEN val ELSE m[k]]

RECURSIVE addAttrToMap(_, _, _), addGroupToMap(_, _, _)
\* addAttrToMap, lines 344-366: a group adds its attributes under its key,
\* every other kind stores its value under the key
addAttrToMap(m, prefix, attr) ==
    LET key == attrKey(prefix, attr.key) IN
    IF attr.kind = "group"
    THEN addGroupToMap(m, key, attr.group)
    ELSE MapSet(m, key, attr.val)
\* the loop of lines 353-355 over attr.Value.Group()
addGroupToMap(m, key, as) ==
    IF as = <<>> THEN m
    ELSE addGroupToMap(addAttrToMap(m, key, Head(as)), key, Tail(as))

\* make(map[string]interface{})
EmptyMap == [k \in {} |-> 0]

\* everything but the variables of a call on its own
handlerState ==
    <<callerPc, minLevel, apiKeySet, viewVars, mainVars, logChan, logBuffer,
      bufferMutex, stopClosed, wg, tickPending, workerVars, batches, stderr,
      producerVars, closeVars>>

\* a call of levelToStatus (as by Handle, line 142)
CallLevelToStatus ==
    /\ fnInput.fn = "levelToStatus"
    /\ fnOutput = NoCall
    /\ fnOutput' = [fn |-> "levelToStatus",
                    status |-> levelToStatus(fnInput.level)]
    /\ UNCHANGED <<fnInput, handlerState>>

\* a call of addAttrToMap on an empty map (as by Handle, line 162, where
\* the prefix is empty, and by the test with a prefix)
CallAddAttrToMap ==
    /\ fnInput.fn = "addAttrToMap"
    /\ fnOutput = NoCall
    /\ fnOutput' = [fn |-> "addAttrToMap",
                    map |-> addAttrToMap(EmptyMap, fnInput.prefix, fnInput.attr)]
    /\ UNCHANGED <<fnInput, handlerState>>

\* a handler left alone, and the arguments of one call
InitCall ==
    /\ InitHandler
    /\ minLevel = LevelInfo
    /\ ~apiKeySet
    /\ InitNoMain
    /\ fnInput \in {[fn |-> "levelToStatus", level |-> l] : l \in AllLevels}
                  \cup {[fn |-> "addAttrToMap", prefix |-> p, attr |-> a] :
                           p \in Prefixes, a \in Attrs}
    /\ fnOutput = NoCall

NextCall ==
    \/ CallLevelToStatus
    \/ CallAddAttrToMap

CallSpec == InitCall /\ [][NextCall]_vars

\* ---- C1 -----------------------------------------------------------------
\* C1: drain on shutdown: when Close has returned, every entry that was
\* enqueued before Close was called is in a batch handed to delivery, and
\* none of them is left in the queue or in the buffer.
DrainOnClose ==
    SomeCloseReturned =>
        /\ preClose \subseteq BatchedIds
        /\ preClose \cap (QueueIds \cup BufferIds) = {}

\* ---- C2 -----------------------------------------------------------------
\* C2: Close is idempotent: no call of Close panics, whether it is the
\* first call or a later one.
CloseIdempotent == closePanics = 0

\* ---- C3 -----------------------------------------------------------------
\* C3 as stated: after Close has returned the buffer is empty and no
\* network call of any batch starts.
NoCallStartsAfterClose ==
    /\ [](SomeCloseReturned => logBuffer = <<>>)
    /\ [][SomeCloseReturned =>
            \A i \in 1..Len(batches) :
                batches'[i].st = "calling" => batches[i].st = "calling"]_vars

\* C3 amended: after Close has returned the buffer is empty and stays
\* empty, and no further batch is handed to delivery; a sendLogs goroutine
\* spawned before Close returned may still start its network call.
NoBatchAfterClose ==
    /\ [](SomeCloseReturned => logBuffer = <<>>)
    /\ [][SomeCloseReturned =>
            /\ Len(batches') = Len(batches)
            /\ logBuffer' = <<>>]_vars

\* Close has returned while the batch of the final flush is still waiting
\* for its sendLogs goroutine to run
FinalBatchPendingAfterClose ==
    /\ SomeCloseReturned
    /\ \E i \in 1..Len(batches) :
          batches[i].by = "stop" /\ batches[i].st = "spawned"

\* ---- C4 -----------------------------------------------------------------
\* C4: when Close returns the worker goroutine has exited and has made its
\* final flush: the buffer is empty and every entry the worker took from
\* the queue is in a batch handed to delivery.
CloseWaitsForWorker ==
    SomeCloseReturned =>
        /\ workerPc = "done"
        /\ wg = 0
        /\ logBuffer = <<>>
        /\ WorkerIds = {}
        /\ (EnqueuedIds \ QueueIds) \subseteq BatchedIds

\* Close has returned after a final flush that handed over a non-empty buffer
ClosedAfterFinalFlush ==
    /\ SomeCloseReturned
    /\ \E i \in 1..Len(batches) : batches[i].by = "stop"

\* ---- C5 -----------------------------------------------------------------
\* C5: Close terminates: a call of Close that waits for the worker
\* (h.wg.Wait) eventually returns, whatever is in the queue or the buffer
\* and whether or not deliveries ever finish.
CloseTerminates == (closeState = "wait") ~> (closeState = "returned")

\* Close has returned while a network call that began earlier has not ended
ClosedWithDeliveryInFlight ==
    /\ SomeCloseReturned
    /\ \E i \in 1..Len(batches) : batches[i].st = "calling"

\* ---- C6 -----------------------------------------------------------------
\* C6: Handle never blocks: a producer that is inside Handle can always
\* take its next step, whatever the queue, the buffer lock, the worker and
\* the deliveries are doing.
HandleNeverBlocks ==
    \A rec \in calls : ENABLED HandleEnqueue(rec)

\* a producer is about to send while the queue is full and the worker has
\* exited
ProducerAtFullQueueWorkerGone ==
    \E rec \in calls :
        /\ Enabled(rec.level)
        /\ Len(logChan) = QueueCap
        /\ workerPc = "done"

\* ---- C7 -----------------------------------------------------------------
\* C7: when Handle finds the queue full the entry is dropped, exactly one
\* warning for the drop is written to the fallback sink, and Handle returns
\* no error.
DropWarnsAndReturnsNil ==
    \A id \in dropped :
        /\ ret[id] = "nil"
        /\ Cardinality(DropWarnings(id)) = 1

\* ---- C8 -----------------------------------------------------------------
\* C8: saturation accounting: the queue never holds more than QueueCap
\* entries; while the worker has consumed nothing, of N records that passed
\* the level check min(N, QueueCap) are in the queue and the others are
\* dropped; every one of the N records is in the fallback sink.
SaturationAccounting ==
    LET N == Cardinality(accepted) IN
    /\ Len(logChan) <= QueueCap
    /\ dropped \subseteq accepted
    /\ accepted \subseteq SinkRecordIds
    /\ WorkerStalled =>
          /\ N > QueueCap => /\ Len(logChan) = QueueCap
                             /\ Cardinality(dropped) = N - QueueCap
          /\ N <= QueueCap => /\ Len(logChan) = N
                              /\ dropped = {}

\* more records than the queue holds were submitted to a stalled worker
QueueSaturated ==
    /\ WorkerStalled
    /\ Cardinality(accepted) > QueueCap
    /\ dropped # {}

\* ---- C9 -----------------------------------------------------------------
\* C9: the fallback sink is written before the enqueue attempt: a producer
\* that has reached the enqueue attempt has its record in the sink, and so
\* has every entry in the queue, in the worker, in the buffer or in a batch.
FallbackBeforeEnqueue ==
    /\ \A rec \in calls : rec.id \in SinkRecordIds
    /\ (QueueIds \cup WorkerIds \cup BufferIds \cup BatchedIds) \subseteq SinkRecordIds

\* entries are queued and batched
EntriesQueuedAndBatched ==
    /\ QueueIds # {}
    /\ BatchedIds # {}

\* ---- C10 ----------------------------------------------------------------
\* C10: Enabled(level) holds exactly for the levels at or above the minimum
\* level, and Handle of a record below the minimum level leaves the queue
\* as it is.
SeverityFilter ==
    /\ [](\A l \in AllLevels : Enabled(l) <=> l >= minLevel)
    /\ [][\A rec \in calls :
            (rec \notin calls' /\ rec.level < minLevel) =>
                (logChan' = logChan /\ ret'[rec.id] = "nil")]_vars

\* Handle has returned for a record below the minimum level
BelowMinimumHandled ==
    \E i \in 1..Len(sink) :
        /\ sink[i].kind = "record"
        /\ sink[i].level < minLevel
        /\ ret[sink[i].id] = "nil"
\* ---- C11 ----------------------------------------------------------------
\* C11: size-triggered flush: the append that brings the buffer to
\* BatchSize entries flushes in the same step, without taking a tick: one
\* batch of exactly those entries is handed to delivery and the buffer is
\* empty; so the buffer never rests at the threshold.
SizeTriggeredFlush ==
    /\ [](bufferMutex = "free" => Len(logBuffer) < BatchSize)
    /\ [][(/\ workerPc = "recv_cs"
           /\ workerPc' = "select"
           /\ Len(logBuffer) + 1 >= BatchSize) =>
              (/\ logBuffer' = <<>>
               /\ Len(batches') = Len(batches) + 1
               /\ batches'[Len(batches')].logs = Append(logBuffer, workerEntry)
               /\ batches'[Len(batches')].st = "spawned"
               /\ tickPending' = tickPending)]_vars

\* a batch made by the size trigger
SizeBatchMade ==
    \E i \in 1..Len(batches) :
        batches[i].by = "size" /\ Len(batches[i].logs) = BatchSize

\* ---- C12 ----------------------------------------------------------------
\* C12 as stated: the flush of a timer tick makes exactly one batch that
\* holds every entry submitted since the previous flush (the buffer and
\* what is still queued), in order.
TimerFlushTakesAllSubmitted ==
    [][(/\ workerPc = "tick_cs"
        /\ workerPc' = "select"
        /\ logBuffer \o logChan # <<>>) =>
           (/\ Len(batches') = Len(batches) + 1
            /\ batches'[Len(batches')].logs = logBuffer \o logChan)]_vars

\* C12 amended: the flush of a timer tick makes at most one batch: when
\* the buffer is not empty, one batch with exactly the buffer's entries in
\* the buffer's order, and the buffer is reset; when it is empty, none.
\* The queue is not touched.
TimerFlushTakesBuffer ==
    [][(workerPc = "tick_cs" /\ workerPc' = "select") =>
          (/\ logChan' = logChan
           /\ logBuffer' = <<>>
           /\ IF logBuffer = <<>>
              THEN batches' = batches
              ELSE /\ Len(batches') = Len(batches) + 1
                   /\ batches'[Len(batches')].logs = logBuffer
                   /\ batches'[Len(batches')].by = "timer"
                   /\ \A i \in 1..Len(batches) : batches'[i] = batches[i])]_vars

\* a timer flush has made a batch below the batch size while an entry was
\* left in the queue
TimerBatchMade ==
    /\ logChan # <<>>
    /\ \E i \in 1..Len(batches) :
          /\ batches[i].by = "timer"
          /\ Len(batches[i].logs) < BatchSize
          /\ i = Len(batches)

\* ---- C13 ----------------------------------------------------------------
\* C13: no duplication: whatever flushes have made the batches (size,
\* timer, a call of flush from another goroutine, the final flush), an entry
\* is in at most one batch handed to delivery and at most once in it.
NoDuplication ==
    \A i, j \in 1..Len(batches) :
      \A k \in 1..Len(batches[i].logs), l \in 1..Len(batches[j].logs) :
         batches[i].logs[k].id = batches[j].logs[l].id => (i = j /\ k = l)

\* a call of flush from outside and a flush of the worker have each made a batch
FlushedByCallerAndWorker ==
    \E i, j \in 1..Len(batches) :
       /\ batches[i].by = "call"
       /\ batches[j].by \in {"size", "timer", "stop"}

\* ---- C14 ----------------------------------------------------------------
EnqueuePosition(id) == CHOOSE k \in 1..Len(enqOrder) : enqOrder[k] = id

WorkerInCs == workerPc \in {"recv_cs", "tick_cs", "stop_cs"}

WorkerNeverWaitsForDelivery ==
    /\ (workerPc = "select" /\ stopClosed) => ENABLED WorkerStop
    /\ (workerPc = "select" /\ Len(logChan) > 0) => ENABLED WorkerRecv
    /\ (workerPc = "select" /\ tickPending) => ENABLED WorkerTick
    /\ (workerPc \in {"recv_lock", "tick_lock", "stop_lock"}
          /\ bufferMutex = "free") => ENABLED WorkerLock
    /\ workerPc = "recv_cs" => ENABLED WorkerAppend
    /\ workerPc \in {"tick_cs", "stop_cs"} => ENABLED WorkerFlush
    /\ workerPc = "exiting" => ENABLED WorkerDone

\* the worker holds the lock to append an entry while the network call of
\* an earlier batch has not returned
WorkerAppendsDuringNetworkCall ==
    /\ workerPc = "recv_cs"
    /\ \E i \in 1..Len(batches) : batches[i].st = "calling"

\* ---- C17 ----------------------------------------------------------------
\* C17: with an empty API key there are no network calls and no errors: no
\* batch reaches the network, no Handle call whose record the fallback
\* handler took returns an error, and sendLogs reports no failure.
NoKeyNoCallsNoErrors ==
    ~apiKeySet =>
        /\ \A i \in 1..Len(batches) :
              batches[i].attempts = 0 /\ batches[i].st \in {"spawned", "skipped"}
        /\ stderr = <<>>
        /\ \A id \in SinkRecordIds : ret[id] \in {"none", "nil"}

\* ---- C18 ----------------------------------------------------------------
DeliveryFailed(b) ==
    \/ b.st \in {"marshal_error", "request_error", "transport_error"}
    \/ b.st = "responded" /\ b.status \notin 200..299

FailedSubmissionRetried ==
    (~ENABLED NextSend) =>
        \A i \in 1..Len(batches) :
           (batches[i].attempts > 0 /\ DeliveryFailed(batches[i])) =>
              batches[i].attempts > 1

\* ---- C20 ----------------------------------------------------------------
DeliveryOver(b) ==
    b.st \in {"marshal_error", "request_error", "transport_error", "responded"}

\* what the fallback handler has written about the delivery of batch i
FallbackFailureReports(i) ==
    {k \in 1..Len(sink) : sink[k].kind = "delivery_failure" /\ sink[k].batch = i}

\* C20: every failed delivery (marshal error, request or transport error,
\* a response that is not 2xx) is reported exactly once by the handler's
\* fallback handler, and a delivery answered 2xx reports nothing.
FailuresReportedToFallback ==
    \A i \in 1..Len(batches) :
       DeliveryOver(batches[i]) =>
          Cardinality(FallbackFailureReports(i))
             = IF DeliveryFailed(batches[i]) THEN 1 ELSE 0

\* ---- C21 ----------------------------------------------------------------
\* goroutines running processLogs: the one NewDatadogHandler started and
\* one for every derived handler that started its own
Workers == 1 + Cardinality({v \in 1..Len(views) : views[v].worker})
\* the tickers the handlers flush on
Tickers == {RootEngine} \cup {views[v].flushTicker : v \in 1..Len(views)}
\* records submitted through a derived handler
DerivedRecordIds ==
    {sink[k].id : k \in {j \in 1..Len(sink) :
                           sink[j].kind = "record" /\ sink[j].scope # <<>>}}

\* C21: derivation shares the engine: however many handlers WithAttrs and
\* WithGroup have made, there is one worker and one flush ticker, every
\* derived handler sends on the channel of the first handler, and an entry
\* enqueued through a derived handler is in that channel, with the worker,
\* in its buffer or in one of its batches.
EngineShared ==
    /\ Workers = 1
    /\ Tickers = {RootEngine}
    /\ \A v \in 1..Len(views) :
          views[v].logChan = RootEngine /\ views[v].stopChan = RootEngine
    /\ \A id \in DerivedRecordIds :
          (id \in EnqueuedIds /\ ret[id] = "nil") =>
             id \in QueueIds \cup WorkerIds \cup BufferIds \cup BatchedIds

\* an entry submitted through a derived handler is in a batch the worker made
DerivedEntryFlushed == DerivedRecordIds \cap BatchedIds # {}

\* ---- C22 ----------------------------------------------------------------
\* C22: no new entries once the stop signal has been observed: a Handle
\* call that started after the worker took the stop case leaves the queue
\* as it is when it returns.
NoEnqueueAfterStop ==
    [][\A rec \in calls :
          (rec.late /\ rec \notin calls') => logChan' = logChan]_vars

\* ---- C23 ----------------------------------------------------------------
\* C23: the severity mapping is total and has four bands: error from
\* LevelError up, warning from LevelWarn up to LevelError, info from
\* LevelInfo up to LevelWarn, debug below LevelInfo, a level at a threshold
\* taking the label of that threshold.
SeverityMapping ==
    fnOutput.fn = "levelToStatus" =>
        LET l == fnInput.level
            st == fnOutput.status
        IN /\ st \in {"debug", "info", "warning", "error"}
           /\ st = "error" <=> l >= LevelError
           /\ st = "warning" <=> (l >= LevelWarn /\ l < LevelError)
           /\ st = "info" <=> (l >= LevelInfo /\ l < LevelWarn)
           /\ st = "debug" <=> l < LevelInfo

\* levelToStatus has mapped a level at a threshold, one below LevelDebug
\* or one above LevelError
ThresholdMapped ==
    /\ fnOutput.fn = "levelToStatus"
    /\ fnInput.level \in {LevelWarn, LevelDebug - 4, LevelError + 4}

\* ---- C24 ----------------------------------------------------------------
RECURSIVE LeavesOf(_, _), LeavesOfList(_, _)
\* the values of an attribute tree in order, each with the keys on the way
\* to it, the keys of its groups first
LeavesOf(attr, path) ==
    IF attr.kind = "group"
    THEN LeavesOfList(attr.group, Append(path, attr.key))
    ELSE <<[path |-> Append(path, attr.key), val |-> attr.val]>>
LeavesOfList(as, path) ==
    IF as = <<>> THEN <<>>
    ELSE LeavesOf(Head(as), path) \o LeavesOfList(Tail(as), path)

RECURSIVE DottedPath(_, _)
\* the path under a prefix: p.k, or k when p is empty, key after key
DottedPath(prefix, path) ==
    IF path = <<>> THEN prefix
    ELSE DottedPath(IF prefix = <<>> THEN Head(path)
                    ELSE prefix \o <<".">> \o Head(path), Tail(path))

\* C24: flattening: addAttrToMap stores each value of the tree under the
\* dotted path of its keys, nothing under the key of a group and nothing
\* else: the keys of the map are the paths of the values, a path has the
\* value stored last under it, and values with different paths give as
\* many entries as there are values.
Flattening ==
    fnOutput.fn = "addAttrToMap" =>
        LET leaves == LeavesOf(fnInput.attr, <<>>)
            keyOf(i) == DottedPath(fnInput.prefix, leaves[i].path)
            m == fnOutput.map
        IN /\ DOMAIN m = {keyOf(i) : i \in 1..Len(leaves)}
           /\ \A i \in 1..Len(leaves) :
                 (\A j \in (i + 1)..Len(leaves) : keyOf(j) # keyOf(i)) =>
                    m[keyOf(i)] = leaves[i].val
           /\ (\A i, j \in 1..Len(leaves) : keyOf(i) = keyOf(j) => i = j) =>
                 Cardinality(DOMAIN m) = Len(leaves)

\* the example {a: {a: 1, a: {a: 2}}} flattened to {"a.a": 1, "a.a.a": 2}
NestedGroupFlattened ==
    /\ fnOutput.fn = "addAttrToMap"
    /\ fnInput.prefix = <<>>
    /\ fnInput.attr =
          GroupAttr(<<"a">>, <<ValueAttr(<<"a">>, 1),
                               GroupAttr(<<"a">>, <<ValueAttr(<<"a">>, 2)>>)>>)
    /\ DOMAIN fnOutput.map = {<<"a", ".", "a">>, <<"a", ".", "a", ".", "a">>}
    /\ fnOutput.map[<<"a", ".", "a">>] = 1
    /\ fnOutput.map[<<"a", ".", "a", ".", "a">>] = 2

\* ---- C25 ----------------------------------------------------------------
RECURSIVE JoinWithDots(_)
\* the keys of a path with a dot between every two of them
JoinWithDots(path) ==
    IF Len(path) = 1 THEN Head(path)
    ELSE Head(path) \o <<".">> \o JoinWithDots(Tail(path))

\* C25: the attributes Handle builds (addAttrToMap with an empty prefix)
\* never have the key "", and the key of a value inside a group is the
\* path of the group, a dot, and the key of the value.
NoEmptyKey ==
    (fnOutput.fn = "addAttrToMap" /\ fnInput.prefix = <<>>) =>
        LET leaves == LeavesOf(fnInput.attr, <<>>) IN
        /\ <<>> \notin DOMAIN fnOutput.map
        /\ \A i \in 1..Len(leaves) :
              Len(leaves[i].path) >= 2 =>
                 JoinWithDots(leaves[i].path) \in DOMAIN fnOutput.map

\* ---- C26 ----------------------------------------------------------------
\* C26: progress while running: with the ticker ticking, the worker
\* scheduled fairly and no Close, every entry on the queue is eventually
\* in a batch handed to delivery.
EnqueuedEventuallyBatched ==
    \A id \in RecordIds : (id \in QueueIds) ~> (id \in BatchedIds)

\* the timer case has flushed an entry and the handler is still running
TimerFlushedWhileRunning ==
    /\ ~stopClosed
    /\ \E i \in 1..Len(batches) : batches[i].by = "timer" /\ batches[i].logs # <<>>

\* ---- C27 ----------------------------------------------------------------
\* how many times the entry of a record is in a sequence of entries
Occurrences(q, id) == Cardinality({i \in 1..Len(q) : q[i].id = id})

\* the places that hold the entry of a record: the queue, the worker on
\* its way from the queue to the buffer, the buffer, the batches
PlacesOf(id) ==
    Occurrences(logChan, id)
      + (IF workerEntry.id = id THEN 1 ELSE 0)
      + Occurrences(logBuffer, id)
      + Cardinality({i \in 1..Len(batches) : id \in SeqIds(batches[i].logs)})

DerivedCloseLikeClose ==
    viewClose = "returned" =>
        /\ workerPc = "done"
        /\ logBuffer = <<>>
        /\ closePanics = 0

\* ---- C29 ----------------------------------------------------------------
EntriesOf(q) == {q[i] : i \in 1..Len(q)}
\* every entry the handler holds or has handed to delivery
AllEntries ==
    EntriesOf(logChan) \cup EntriesOf(logBuffer)
       \cup (IF workerEntry = NoEntry THEN {} ELSE {workerEntry})
       \cup UNION {EntriesOf(batches[i].logs) : i \in 1..Len(batches)}

\* C29: a derived handler is scoped: the entry enqueued for a record
\* carries the attributes and groups of the handler the record was
\* submitted through, as the fallback's output of that record does.
DerivedScopeInEntry ==
    \A e \in AllEntries :
       \A k \in 1..Len(sink) :
          (sink[k].kind = "record" /\ sink[k].id = e.id) => e.scope = sink[k].scope

\* ---- C30 ----------------------------------------------------------------
\* C30: graceful shutdown in main: when the process has ended, on
\* whichever path, every handler main made has been closed: the first
\* one, and the one made for --debug if there is one.
AllHandlersClosedAtExit ==
    Exited =>
        /\ closeState = "returned"
        /\ ddHandler = 2 => secondClosed

====
